---- MODULE Spec2Model ----
(***************************************************************************)
(* Model of fallback_search.py: the title similarity check, the arXiv and  *)
(* Google Scholar searches and the fallback_search orchestrator.           *)
(*                                                                         *)
(* Text is a sequence of one-character strings, so that tokenising,        *)
(* lower-casing, splitting and suffix stripping are computed character by  *)
(* character as the Python code computes them.  The two external services  *)
(* are the environment: each call draws the service's response from a      *)
(* bounded set.                                                            *)
(***************************************************************************)
EXTENDS Integers, Sequences, FiniteSets, TLC

VARIABLES
    pc,      \* position of the caller / of fallback_search
    call,    \* the search or helper call last made, until its return is consumed
    fb,      \* the arguments of the running fallback_search invocation
    bibtex,  \* fallback_search's local variable bibtex
    log,     \* the external effects of the invocation, in order
    result   \* the outcome of fallback_search

vars == <<pc, call, fb, bibtex, log, result>>

-----------------------------------------------------------------------------
(* Bounds of the model *)

\* longest title enumerated exhaustively for the similarity check
MaxTitleLen == 3
\* longest entry identifier text enumerated exhaustively
MaxIdLen == 4
\* most fragments concatenated into a venue text
MaxVenueParts == 2

(* Program constants *)

\* threshold=0.7 of _title_similar, as the fraction ThresholdNum/ThresholdDen.
\* len(intersection)/len(union) is a correctly rounded double division and 0.7
\* the double nearest 7/10, so for set sizes below 2^50 the float comparison
\* agrees with the comparison of the fractions.
ThresholdNum == 7
ThresholdDen == 10
\* published.text[:4]
YearLen == 4
\* the only HTTP status search_arxiv accepts
HttpOk == 200

-----------------------------------------------------------------------------
(* Characters *)

NL == "\n"

UpperChars ==
    <<"A","B","C","D","E","F","G","H","I","J","K","L","M",
      "N","O","P","Q","R","S","T","U","V","W","X","Y","Z">>
LowerChars ==
    <<"a","b","c","d","e","f","g","h","i","j","k","l","m",
      "n","o","p","q","r","s","t","u","v","w","x","y","z">>
Digits == {"0","1","2","3","4","5","6","7","8","9"}

Range(s) == {s[i] : i \in DOMAIN s}

\* \w of the re module: letters, digits and the underscore
WordChars == Range(UpperChars) \cup Range(LowerChars) \cup Digits \cup {"_"}
IsWordChar(c) == c \in WordChars
\* \s of the re module and the separators of str.split()
IsSpace(c) == c \in {" ", NL}
\* \d of the re module
IsDigit(c) == c \in Digits

\* str.lower() on one character: an upper-case letter becomes its lower-case
\* letter, any other character stays
ToLower ==
    [c \in Range(UpperChars) |->
        LowerChars[CHOOSE i \in DOMAIN UpperChars : UpperChars[i] = c]]
LowerChar(c) == IF c \in DOMAIN ToLower THEN ToLower[c] ELSE c

\* str.lower()
LowerStr(s) == [i \in DOMAIN s |-> LowerChar(s[i])]

\* sep.join(parts)
RECURSIVE Join(_, _)
Join(sep, parts) ==
    IF parts = <<>> THEN <<>>
    ELSE IF Len(parts) = 1 THEN parts[1]
    ELSE parts[1] \o sep \o Join(sep, Tail(parts))

\* the maximal runs of the characters of a class ("word": \w, otherwise
\* non-whitespace), scanned left to right; cur is the run being read
InClass(cls, c) == IF cls = "word" THEN IsWordChar(c) ELSE ~IsSpace(c)

RECURSIVE Runs(_, _, _, _)
Runs(s, cur, cls, acc) ==
    IF s = <<>>
    THEN IF cur = <<>> THEN acc ELSE Append(acc, cur)
    ELSE IF InClass(cls, Head(s))
         THEN Runs(Tail(s), Append(cur, Head(s)), cls, acc)
         ELSE Runs(Tail(s), <<>>, cls, IF cur = <<>> THEN acc ELSE Append(acc, cur))

\* re.findall(r'\w+', s)
FindAllWords(s) == Runs(s, <<>>, "word", <<>>)

\* s.split(): the whitespace-separated words
SplitWS(s) == Runs(s, <<>>, "nonspace", <<>>)

\* s.split('/')[-1]: the text after the last '/'
RECURSIVE LastSegment(_)
LastSegment(s) ==
    IF s = <<>> THEN <<>>
    ELSE IF s[Len(s)] = "/" THEN <<>>
    ELSE Append(LastSegment(SubSeq(s, 1, Len(s) - 1)), s[Len(s)])

\* the number of digits s ends in
RECURSIVE TrailingDigits(_)
TrailingDigits(s) ==
    IF s = <<>> \/ ~IsDigit(s[Len(s)]) THEN 0
    ELSE 1 + TrailingDigits(SubSeq(s, 1, Len(s) - 1))

\* s with a match of v\d+ removed from its end, when there is one
StripAtEnd(s) ==
    LET d == TrailingDigits(s) IN
    IF d >= 1 /\ Len(s) > d /\ s[Len(s) - d] = "v"
    THEN SubSeq(s, 1, Len(s) - d - 1)
    ELSE s

\* re.sub(r'v\d+$', '', s): '$' matches at the end of the text and also just
\* before a newline that ends it; the leftmost match is replaced first, and
\* the scan resumes after it
StripBeforeFinalNL(s) ==
    LET body == SubSeq(s, 1, Len(s) - 1) IN
    IF StripAtEnd(body) # body THEN Append(StripAtEnd(body), NL) ELSE s

SubVersion(s) ==
    IF s # <<>> /\ s[Len(s)] = NL
    THEN StripBeforeFinalNL(s)
    ELSE StripAtEnd(s)

\* sub in s
Contains(s, sub) ==
    \E i \in 1..(Len(s) - Len(sub) + 1) : SubSeq(s, i, i + Len(sub) - 1) = sub

\* s[:n]
Take(s, n) == SubSeq(s, 1, IF Len(s) < n THEN Len(s) ELSE n)

\* all texts over an alphabet of length at most n
RECURSIVE TextsUpTo(_, _)
TextsUpTo(alphabet, n) ==
    IF n = 0 THEN {<<>>}
    ELSE LET shorter == TextsUpTo(alphabet, n - 1) IN
         shorter \cup {Append(t, c) : t \in shorter, c \in alphabet}

-----------------------------------------------------------------------------
(* _title_similar *)

\* normalize(s) of _title_similar
normalize(s) == Range(FindAllWords(LowerStr(s)))

\* a version of the check that divides by the first title's word count
title_similar_asym(title1, title2) ==
    LET words1 == normalize(title1)
        words2 == normalize(title2)
    IN  IF words1 = {} \/ words2 = {} THEN FALSE
        ELSE ThresholdDen * Cardinality(words1 \cap words2)
                 >= ThresholdNum * Cardinality(words1)

\* a version of the check with a strict comparison
title_similar_strict(title1, title2) ==
    LET words1 == normalize(title1)
        words2 == normalize(title2)
    IN  IF words1 = {} \/ words2 = {} THEN FALSE
        ELSE ThresholdDen * Cardinality(words1 \cap words2)
                 > ThresholdNum * Cardinality(words1 \cup words2)

\* _title_similar(title1, title2, threshold=0.7)
_title_similar(title1, title2) ==
    LET words1 == normalize(title1)
        words2 == normalize(title2)
    IN  IF words1 = {} \/ words2 = {} THEN FALSE
        ELSE LET intersection == words1 \cap words2
                 union == words1 \cup words2
             IN  ThresholdDen * Cardinality(intersection)
                     >= ThresholdNum * Cardinality(union)

-----------------------------------------------------------------------------
(* Values *)

\* None
NoneVal == [kind |-> "None"]

\* an exception leaving a function
Raised(e) == [kind |-> "raise", exc |-> e]

\* a BibTeX entry: "@type{key," followed by one line per field
Bib(type, key, fields) == [kind |-> "bibtex", type |-> type, key |-> key, fields |-> fields]

Field(name, value) == [name |-> name, value |-> value]

\* a version of the test that takes None for a result
TruthyInverted(r) == r.kind = "None"

\* the truth value of a return value in "if bibtex:": None is false; a BibTeX
\* text always holds its "@type{key," line, so it is never the empty string
Truthy(r) == r.kind = "bibtex"

FieldNames(r) == {r.fields[i].name : i \in DOMAIN r.fields}

FieldValue(r, name) ==
    r.fields[CHOOSE i \in DOMAIN r.fields : r.fields[i].name = name].value

\* an XML element found by entry.find (present), with its text or with none;
\* the same shape serves for an optional dictionary key of a scholarly result
Missing == [present |-> FALSE, hasText |-> FALSE, text |-> <<>>]
NoText == [present |-> TRUE, hasText |-> FALSE, text |-> <<>>]
Elem(t) == [present |-> TRUE, hasText |-> TRUE, text |-> t]

-----------------------------------------------------------------------------
(* Texts used as inputs and literals *)

T_Attention == <<"A","t","t","e","n","t","i","o","n"," ","I","s"," ","A","l","l"," ","Y","o","u"," ","N","e","e","d">>
T_AttentionArxiv == <<"A","t","t","e","n","t","i","o","n"," ","i","s"," ","A","l","l","\n"," "," ","y","o","u"," ","N","e","e","d">>
T_AttentionShort == <<"A","t","t","e","n","t","i","o","n"," ","I","s"," ","A","l","l">>
T_Seven == <<"a"," ","b"," ","c"," ","d"," ","e"," ","f"," ","g">>
T_Ten == <<"a"," ","b"," ","c"," ","d"," ","e"," ","f"," ","g"," ","h"," ","i"," ","j">>
T_Three == <<"a","-","b",":"," ","c">>
T_Four == <<"A"," ","B"," ","c"," ","d">>
T_Two == <<"a"," ","b">>
T_Punct == <<"-","-"," ",":">>
AbsBase == <<"h","t","t","p",":","/","/","a","r","x","i","v",".","o","r","g","/","a","b","s","/">>
Id_New == <<"h","t","t","p",":","/","/","a","r","x","i","v",".","o","r","g","/","a","b","s","/","1","7","0","6",".","0","3","7","6","2","v","5">>
Id_Old == <<"h","t","t","p",":","/","/","a","r","x","i","v",".","o","r","g","/","a","b","s","/","h","e","p","-","t","h","/","9","9","0","1","0","0","1","v","1">>
N_Vaswani == <<"A","s","h","i","s","h"," ","V","a","s","w","a","n","i">>
N_Shazeer == <<"N","o","a","m"," ","S","h","a","z","e","e","r">>
N_Lee == <<"K"," ","L","e","e">>
N_Blank == <<" ">>
P_2017 == <<"2","0","1","7","-","0","6","-","1","2","T","1","7",":","5","7",":","3","4","Z">>
P_Short == <<"2","0","1">>
Y_2017 == <<"2","0","1","7">>
U_Url == <<"h","t","t","p",":","/","/","a",".","b","/","c">>
V_ICML == <<"P","r","o","c","e","e","d","i","n","g","s"," ","o","f"," ","I","C","M","L">>
V_JMLR == <<"J","o","u","r","n","a","l"," ","o","f"," ","M","L"," ","R","e","s","e","a","r","c","h">>
F_Proc == <<"P","r","o","c">>
F_eedings == <<"e","e","d","i","n","g","s">>
F_CONF == <<"C","O","N","F","E","R","E","N","C","E">>
F_conferenc == <<"c","o","n","f","e","r","e","n","c">>
F_Sympo == <<"S","y","m","p","o">>
F_sium == <<"s","i","u","m">>
F_of == <<" ","o","f"," ">>
F_Journal == <<"J","o","u","r","n","a","l">>

\* 'Unknown'
Unknown == <<"U","n","k","n","o","w","n">>
\* 'arxiv:' and 'scholar:' of the cite keys
ArxivTag == <<"a","r","x","i","v",":">>
ScholarTag == <<"s","c","h","o","l","a","r",":">>
\* 'arXiv preprint arXiv:' of the journal field
ArxivPreprint == <<"a","r","X","i","v"," ","p","r","e","p","r","i","n","t"," ","a","r","X","i","v",":">>
\* ' and\n               ' between authors
AuthorSep == <<" ","a","n","d","\n"," "," "," "," "," "," "," "," "," "," "," "," "," "," "," ">>
\* the venue words that make a record an inproceedings
KW_conference == <<"c","o","n","f","e","r","e","n","c","e">>
KW_proceedings == <<"p","r","o","c","e","e","d","i","n","g","s">>
KW_symposium == <<"s","y","m","p","o","s","i","u","m">>

-----------------------------------------------------------------------------
(* search_arxiv *)

\* clean_title: re.sub(r'[^\w\s]', ' ', title), then ' '.join(....split())
CleanTitle(title) ==
    Join(<<" ">>,
         SplitWS([i \in DOMAIN title |->
                    IF IsWordChar(title[i]) \/ IsSpace(title[i]) THEN title[i] ELSE " "]))

\* authors[0].split()[-1] if authors else 'Unknown'; the caller has checked
\* that authors[0] is a text with at least one word
FirstAuthorLastname(authors) ==
    IF authors = <<>> THEN Unknown
    ELSE LET words == SplitWS(authors[1].text) IN words[Len(words)]

\* what evaluating authors[0].split()[-1] and the join of the authors raises:
\* None has no split (AttributeError), a blank name has no last word
\* (IndexError), and join refuses None (TypeError)
AuthorsFault(authors) ==
    IF authors # <<>> /\ ~authors[1].hasText THEN "AttributeError"
    ELSE IF authors # <<>> /\ SplitWS(authors[1].text) = <<>> THEN "IndexError"
    ELSE IF \E i \in DOMAIN authors : ~authors[i].hasText THEN "TypeError"
    ELSE "ok"

AuthorStr(authors) == Join(AuthorSep, [i \in DOMAIN authors |-> authors[i].text])

\* _format_arxiv_bibtex(arxiv_id, title, authors, year, doi, journal_ref);
\* doi and journal_ref are accepted and not used
_format_arxiv_bibtex(arxiv_id, title, authors, year) ==
    IF AuthorsFault(authors) # "ok" THEN Raised(AuthorsFault(authors))
    ELSE LET first_author_lastname == FirstAuthorLastname(authors)
             cite_key == ArxivTag \o first_author_lastname \o year
             author_str == AuthorStr(authors)
         IN  Bib("article", cite_key,
                 << Field("author", author_str),
                    Field("title", <<"{">> \o title \o <<"}">>),
                    Field("journal", ArxivPreprint \o arxiv_id),
                    Field("year", year) >>)

\* arxiv_id: the last path segment of the id element's text, '' without the
\* element, then with the version suffix removed
ArxivId(id_elem) ==
    SubVersion(IF id_elem.present THEN LastSegment(id_elem.text) ELSE <<>>)

\* the body of search_arxiv's try block, for query title and the service's
\* response resp; an exception raised inside it is returned as Raised
search_arxiv_try(title, resp) ==
    IF resp.net # "ok" THEN Raised("RequestException")
    ELSE IF resp.status # HttpOk THEN NoneVal
    ELSE IF resp.xml # "ok" THEN Raised("ParseError")
    ELSE IF resp.entries = <<>> THEN NoneVal
    ELSE LET entry == resp.entries[1] IN
         IF ~entry.title.present THEN NoneVal
         ELSE IF ~entry.title.hasText THEN Raised("AttributeError")
         ELSE LET entry_title == Join(<<" ">>, SplitWS(entry.title.text)) IN
              IF ~_title_similar(title, entry_title) THEN NoneVal
              ELSE IF entry.published.present /\ ~entry.published.hasText
                   THEN Raised("TypeError")
              ELSE IF entry.id.present /\ ~entry.id.hasText
                   THEN Raised("AttributeError")
              ELSE LET year == IF entry.published.present
                               THEN Take(entry.published.text, YearLen)
                               ELSE <<>>
                       arxiv_id == ArxivId(entry.id)
                   IN  _format_arxiv_bibtex(arxiv_id, entry_title, entry.authors, year)

\* a version of search_arxiv that skips the similarity check
search_arxiv_nocheck(title, resp) ==
    IF resp.net # "ok" \/ resp.status # HttpOk \/ resp.xml # "ok" THEN NoneVal
    ELSE IF resp.entries = <<>> THEN NoneVal
    ELSE IF ~resp.entries[1].title.hasText THEN NoneVal
    ELSE Bib("article", ArxivTag, <<>>)

\* search_arxiv(title): "except Exception" turns every exception of the try
\* block into None
search_arxiv(title, resp) ==
    LET r == search_arxiv_try(title, resp) IN
    IF r.kind = "raise" THEN NoneVal ELSE r

-----------------------------------------------------------------------------
(* search_google_scholar *)

\* dictionary.get(key, default) for a key holding a text
GetText(key, default) == IF key.present THEN key.text ELSE default

\* bib.get('author', ['Unknown']), a lone string made a one-element list; each
\* author as an element with its text
ScholarAuthors(author) ==
    IF ~author.present THEN <<Elem(Unknown)>>
    ELSE [i \in DOMAIN author.names |-> Elem(author.names[i])]

\* bib.get('venue', bib.get('journal', bib.get('booktitle', '')))
ScholarVenue(res) == GetText(res.venue, GetText(res.journal, GetText(res.booktitle, <<>>)))

\* a version of the classification that looks for 'conference' only
PubTypeConferenceOnly(venue) ==
    IF Contains(LowerStr(venue), KW_conference) THEN "inproceedings" ELSE "article"

\* pub_type: 'inproceedings' when the lower-cased venue contains one of the
\* three words, 'article' otherwise
PubType(venue) ==
    IF \/ Contains(LowerStr(venue), KW_conference)
       \/ Contains(LowerStr(venue), KW_proceedings)
       \/ Contains(LowerStr(venue), KW_symposium)
    THEN "inproceedings"
    ELSE "article"

\* a version of the optional lines that always writes the year
ScholarOptionalFieldsAlwaysYear(year, pub_url) ==
    <<Field("year", year)>>
    \o (IF pub_url # <<>> THEN <<Field("url", pub_url)>> ELSE <<>>)

\* the lines added under "if year:" and "if pub_url:"
ScholarOptionalFields(year, pub_url) ==
    (IF year # <<>> THEN <<Field("year", year)>> ELSE <<>>)
    \o (IF pub_url # <<>> THEN <<Field("url", pub_url)>> ELSE <<>>)

\* the body of search_google_scholar's second try block, for query title and
\* the service's response resp: res is the first result, whose 'bib' mapping
\* holds title, author, pub_year, venue, journal and booktitle, each optional
search_google_scholar_try(title, resp) ==
    IF resp.search # "ok" THEN Raised("Exception")
    ELSE IF resp.results = <<>> THEN NoneVal
    ELSE LET res == resp.results[1]
             result_title == GetText(res.title, <<>>)
         IN  IF ~_title_similar(title, result_title) THEN NoneVal
             ELSE LET authors == ScholarAuthors(res.author)
                      year == GetText(res.pub_year, <<>>)
                      venue == ScholarVenue(res)
                  IN  IF AuthorsFault(authors) # "ok" THEN Raised(AuthorsFault(authors))
                      ELSE LET first_author_lastname == FirstAuthorLastname(authors)
                               cite_key == ScholarTag \o first_author_lastname \o year
                               pub_type == PubType(venue)
                               author_str == AuthorStr(authors)
                               pub_url == GetText(res.pub_url, <<>>)
                           IN  Bib(pub_type, cite_key,
                                   << Field("author", author_str),
                                      Field("title", result_title),
                                      Field(IF pub_type = "inproceedings"
                                            THEN "booktitle" ELSE "journal", venue) >>
                                   \o ScholarOptionalFields(year, pub_url))

\* search_google_scholar(title): the import of scholarly is guarded by
\* "except ImportError" alone, so any other exception it raises leaves the
\* function; "except Exception" turns every exception of the search into None
search_google_scholar(title, resp) ==
    IF resp.import = "ImportError" THEN NoneVal
    ELSE IF resp.import # "ok" THEN Raised(resp.import)
    ELSE LET r == search_google_scholar_try(title, resp) IN
         IF r.kind = "raise" THEN NoneVal ELSE r

-----------------------------------------------------------------------------
(* The inputs and the services' responses *)

\* titles passed to the searches and to fallback_search
QueryTitles == {T_Attention, T_Two, T_Punct}

\* titles compared by the similarity check: every text of at most MaxTitleLen
\* characters over a small alphabet, and longer ones around the threshold
SimAlphabet == {"a", "A", "b", " "}
SimTitles ==
    TextsUpTo(SimAlphabet, MaxTitleLen)
    \cup {T_Seven, T_Ten, T_Three, T_Four, T_Punct, T_Attention, T_AttentionArxiv}

EntryTitles == {Missing, NoText, Elem(T_AttentionArxiv), Elem(T_AttentionShort),
                Elem(T_Two), Elem(T_Three), Elem(T_Punct), Elem(<<>>)}

AuthorLists == { <<>>, <<Elem(N_Lee)>>, <<Elem(N_Vaswani)>>, <<Elem(N_Vaswani), Elem(N_Shazeer)>>,
                 <<NoText>>, <<Elem(N_Blank)>>, <<Elem(N_Vaswani), NoText>> }

PublishedElems == {Missing, NoText, Elem(P_2017), Elem(P_Short)}

\* the id element's text: every text of at most MaxIdLen characters over a
\* small alphabet, bare and behind the service's URL prefix, and two
\* identifiers of the service, new style and old style
IdAlphabet == {"/", "v", "1", "a", NL}
IdTexts ==
    TextsUpTo(IdAlphabet, MaxIdLen)
    \cup {AbsBase \o t : t \in TextsUpTo(IdAlphabet \ {NL}, MaxIdLen)}
    \cup {Id_New, Id_Old}
IdElems == {Missing, NoText} \cup {Elem(t) : t \in IdTexts}

\* the entry of the query "Attention Is All You Need"
AttentionEntry ==
    [title |-> Elem(T_AttentionArxiv), authors |-> <<Elem(N_Vaswani), Elem(N_Shazeer)>>,
     published |-> Elem(P_2017), id |-> Elem(Id_New)]

BaseEntry ==
    [title |-> Elem(T_Two), authors |-> <<Elem(N_Lee)>>,
     published |-> Elem(P_2017), id |-> Elem(Id_New)]

ArxivEntries ==
    {AttentionEntry}
    \cup {[BaseEntry EXCEPT !.title = t] : t \in EntryTitles}
    \cup {[BaseEntry EXCEPT !.authors = a, !.published = p] :
              a \in AuthorLists, p \in PublishedElems}
    \cup {[BaseEntry EXCEPT !.id = i] : i \in IdElems}

ArxivReply(net, status, xml, entries) ==
    [net |-> net, status |-> status, xml |-> xml, entries |-> entries]

\* what the e-print service can answer to one request
ArxivResponses ==
    {ArxivReply("error", HttpOk, "ok", <<>>),
     ArxivReply("ok", 404, "ok", <<BaseEntry>>),
     ArxivReply("ok", 503, "ok", <<>>),
     ArxivReply("ok", HttpOk, "malformed", <<>>),
     ArxivReply("ok", HttpOk, "ok", <<>>),
     ArxivReply("ok", HttpOk, "ok", <<BaseEntry, AttentionEntry>>)}
    \cup {ArxivReply("ok", HttpOk, "ok", <<e>>) : e \in ArxivEntries}

\* venue texts: up to MaxVenueParts fragments in a row
VenueFragments == {F_Proc, F_eedings, F_CONF, F_conferenc, F_Sympo, F_sium, F_of, F_Journal}
RECURSIVE VenuesUpTo(_)
VenuesUpTo(n) ==
    IF n = 0 THEN {<<>>}
    ELSE VenuesUpTo(n - 1) \cup {v \o f : v \in VenuesUpTo(n - 1), f \in VenueFragments}
VenueTexts == VenuesUpTo(MaxVenueParts) \cup {V_ICML, V_JMLR}

AuthorKey(present, names) == [present |-> present, names |-> names]
\* the 'author' key: absent, a lone string (a one-element list after the
\* isinstance test) or a list
ScholarAuthorKeys ==
    {AuthorKey(FALSE, <<>>), AuthorKey(TRUE, <<>>), AuthorKey(TRUE, <<N_Vaswani>>),
     AuthorKey(TRUE, <<N_Lee>>), AuthorKey(TRUE, <<N_Vaswani, N_Shazeer>>),
     AuthorKey(TRUE, <<N_Blank>>)}

OptTexts(ts) == {Missing} \cup {Elem(t) : t \in ts}

BaseResult ==
    [title |-> Elem(T_Two), author |-> AuthorKey(TRUE, <<N_Lee>>),
     pub_year |-> Elem(Y_2017), venue |-> Elem(V_ICML), journal |-> Missing,
     booktitle |-> Missing, pub_url |-> Elem(U_Url)]

ScholarResults ==
    {[BaseResult EXCEPT !.title = t] :
         t \in OptTexts({<<>>, T_AttentionArxiv, T_AttentionShort, T_Three, T_Punct})}
    \cup {[BaseResult EXCEPT !.author = a, !.pub_year = y, !.pub_url = u] :
              a \in ScholarAuthorKeys, y \in OptTexts({<<>>, Y_2017}),
              u \in OptTexts({<<>>, U_Url})}
    \cup {[BaseResult EXCEPT !.venue = v] : v \in OptTexts(VenueTexts)}
    \cup {[BaseResult EXCEPT !.venue = v, !.journal = j, !.booktitle = b] :
              v \in OptTexts({V_JMLR}), j \in OptTexts({V_ICML, V_JMLR}),
              b \in OptTexts({V_ICML, V_JMLR})}

ScholarReply(import, search, results) ==
    [import |-> import, search |-> search, results |-> results]

\* what loading scholarly and the scholarly service can do on one call
ScholarResponses ==
    {ScholarReply("ImportError", "ok", <<>>),
     ScholarReply("AttributeError", "ok", <<>>),
     ScholarReply("ok", "error", <<>>),
     ScholarReply("ok", "ok", <<>>),
     ScholarReply("ok", "ok", <<BaseResult, [BaseResult EXCEPT !.title = Elem(T_Punct)]>>)}
    \cup {ScholarReply("ok", "ok", <<r>>) : r \in ScholarResults}

-----------------------------------------------------------------------------
(* The program *)

Event(ev, ret) == [ev |-> ev, ret |-> ret]

Init ==
    /\ pc = "idle"
    /\ call = [fn |-> "none"]
    /\ fb = [active |-> FALSE]
    /\ bibtex = NoneVal
    /\ log = <<>>
    /\ result = NoneVal

\* a caller evaluates _title_similar(title1, title2)
SimCheck ==
    /\ pc = "idle"
    /\ \E t1 \in SimTitles, t2 \in SimTitles :
          call' = [fn |-> "_title_similar", title1 |-> t1, title2 |-> t2,
                   ret |-> _title_similar(t1, t2), swapped |-> FALSE]
    /\ pc' = "sim1"
    /\ UNCHANGED <<fb, bibtex, log, result>>

\* and then _title_similar(title2, title1)
SimCheckSwapped ==
    /\ pc = "sim1"
    /\ call' = [call EXCEPT !.swapped = _title_similar(call.title2, call.title1)]
    /\ pc' = "sim2"
    /\ UNCHANGED <<fb, bibtex, log, result>>

\* a caller calls search_arxiv(title) (as the module's own test does)
DirectArxiv ==
    /\ pc = "idle"
    /\ \E title \in QueryTitles, resp \in ArxivResponses :
          LET r == search_arxiv(title, resp) IN
          /\ call' = [fn |-> "search_arxiv", title |-> title,
                      query |-> CleanTitle(title), resp |-> resp, ret |-> r]
          /\ log' = <<Event("search_arxiv", r)>>
    /\ pc' = "returned"
    /\ UNCHANGED <<fb, bibtex, result>>

\* a caller calls search_google_scholar(title)
DirectScholar ==
    /\ pc = "idle"
    /\ \E title \in QueryTitles, resp \in ScholarResponses :
          LET r == search_google_scholar(title, resp) IN
          /\ call' = [fn |-> "search_google_scholar", title |-> title,
                      query |-> title, resp |-> resp, ret |-> r]
          /\ log' = <<Event("search_google_scholar", r)>>
    /\ pc' = "returned"
    /\ UNCHANGED <<fb, bibtex, result>>

\* "if use_arxiv:"
ArxivEnabled(f) == f.use_arxiv

\* a version of the second test that ignores the flag
ScholarAlways(f) == TRUE

\* "if use_scholar:"
ScholarEnabled(f) == f.use_scholar

\* fallback_search(title, use_arxiv, use_scholar) is entered: bibtex = None
FbEnter ==
    /\ pc = "idle"
    /\ \E title \in QueryTitles, ua \in BOOLEAN, us \in BOOLEAN :
          fb' = [active |-> TRUE, title |-> title, use_arxiv |-> ua, use_scholar |-> us]
    /\ bibtex' = NoneVal
    /\ pc' = "fb219"
    /\ UNCHANGED <<call, log, result>>

\* use_arxiv: bibtex = search_arxiv(title)
FbCallArxiv ==
    /\ pc = "fb219"
    /\ ArxivEnabled(fb)
    /\ \E resp \in ArxivResponses :
          LET r == search_arxiv(fb.title, resp) IN
          /\ call' = [fn |-> "search_arxiv", title |-> fb.title,
                      query |-> CleanTitle(fb.title), resp |-> resp, ret |-> r]
          /\ log' = Append(log, Event("search_arxiv", r))
          /\ bibtex' = r
    /\ pc' = "fb222"
    /\ UNCHANGED <<fb, result>>

\* not use_arxiv: on to the scholarly search
FbSkipArxiv ==
    /\ pc = "fb219"
    /\ ~ArxivEnabled(fb)
    /\ pc' = "fb229"
    /\ UNCHANGED <<call, fb, bibtex, log, result>>

\* "if bibtex: return bibtex" after the e-print search
FbReturnArxiv ==
    /\ pc = "fb222"
    /\ Truthy(bibtex)
    /\ result' = bibtex
    /\ pc' = "fb_done"
    /\ UNCHANGED <<call, fb, bibtex, log>>

\* the e-print search found nothing; its call is over, the log keeps its return
FbArxivMiss ==
    /\ pc = "fb222"
    /\ ~Truthy(bibtex)
    /\ call' = [fn |-> "none"]
    /\ pc' = "fb229"
    /\ UNCHANGED <<fb, bibtex, log, result>>

\* use_scholar: time.sleep(1)
FbSleep ==
    /\ pc = "fb229"
    /\ ScholarEnabled(fb)
    /\ log' = Append(log, Event("sleep", NoneVal))
    /\ pc' = "fb232"
    /\ UNCHANGED <<call, fb, bibtex, result>>

\* bibtex = search_google_scholar(title); an exception leaving the search
\* leaves fallback_search too, which has no handler
FbCallScholar ==
    /\ pc = "fb232"
    /\ \E resp \in ScholarResponses :
          LET r == search_google_scholar(fb.title, resp) IN
          /\ call' = [fn |-> "search_google_scholar", title |-> fb.title,
                      query |-> fb.title, resp |-> resp, ret |-> r]
          /\ log' = Append(log, Event("search_google_scholar", r))
          /\ IF r.kind = "raise"
             THEN /\ result' = r
                  /\ pc' = "fb_done"
                  /\ UNCHANGED bibtex
             ELSE /\ bibtex' = r
                  /\ pc' = "fb233"
                  /\ UNCHANGED result
    /\ UNCHANGED fb

\* "if bibtex: return bibtex" after the scholarly search
FbReturnScholar ==
    /\ pc = "fb233"
    /\ Truthy(bibtex)
    /\ result' = bibtex
    /\ pc' = "fb_done"
    /\ UNCHANGED <<call, fb, bibtex, log>>

\* "return None": the scholarly search is disabled or found nothing
FbReturnNone ==
    /\ \/ pc = "fb229" /\ ~ScholarEnabled(fb)
       \/ pc = "fb233" /\ ~Truthy(bibtex)
    /\ result' = NoneVal
    /\ pc' = "fb_done"
    /\ UNCHANGED <<call, fb, bibtex, log>>

Next ==
    \/ SimCheck
    \/ SimCheckSwapped
    \/ DirectArxiv
    \/ DirectScholar
    \/ FbEnter
    \/ FbCallArxiv
    \/ FbSkipArxiv
    \/ FbReturnArxiv
    \/ FbArxivMiss
    \/ FbSleep
    \/ FbCallScholar
    \/ FbReturnScholar
    \/ FbReturnNone

Spec == Init /\ [][Next]_vars

-----------------------------------------------------------------------------
(* The notions the properties are stated in, defined apart from the code's
   computations *)

\* the lower-cased word tokens of a text: its maximal runs of word characters
WordTokens(s) ==
    LET l == LowerStr(s)
        starts == {i \in DOMAIN l :
                      IsWordChar(l[i]) /\ (i = 1 \/ ~IsWordChar(l[i - 1]))}
        ends == {j \in DOMAIN l :
                    IsWordChar(l[j]) /\ (j = Len(l) \/ ~IsWordChar(l[j + 1]))}
    IN  {SubSeq(l, i, CHOOSE j \in ends : j >= i /\ \A k \in ends : k >= i => j <= k) :
            i \in starts}

\* both token sets are non-empty and 10 * |intersection| >= 7 * |union|
Overlap70(a, b) ==
    LET ta == WordTokens(a)
        tb == WordTokens(b)
    IN  /\ ta # {}
        /\ tb # {}
        /\ 10 * Cardinality(ta \cap tb) >= 7 * Cardinality(ta \cup tb)

InSim == pc \in {"sim1", "sim2"}
InFallback == fb.active
ArxivReturned == call.fn = "search_arxiv"
ScholarReturned == call.fn = "search_google_scholar"
ArxivRecord == ArxivReturned /\ call.ret.kind = "bibtex"
ScholarRecord == ScholarReturned /\ call.ret.kind = "bibtex"

LogEvents(ev) == {i \in DOMAIN log : log[i].ev = ev}

-----------------------------------------------------------------------------
(* C4 *)

\* C4: _title_similar returns true if and only if both lower-cased word-token
\* sets are non-empty and 10 * |intersection| >= 7 * |union|; so it returns
\* false when either token set is empty and true when the two token sets are
\* identical and non-empty.
C4_SimilarIffOverlap ==
    InSim =>
        /\ call.ret = Overlap70(call.title1, call.title2)
        /\ (WordTokens(call.title1) = {} \/ WordTokens(call.title2) = {}) => ~call.ret
        /\ (WordTokens(call.title1) = WordTokens(call.title2)
               /\ WordTokens(call.title1) # {}) => call.ret

\* two titles of seven and ten words, seven of them shared: exactly 0.7
C4_Witness ==
    /\ InSim
    /\ call.title1 = T_Seven
    /\ call.title2 = T_Ten
    /\ call.ret

-----------------------------------------------------------------------------
(* C5 *)

\* C5: the similarity check is symmetric: _title_similar(A, B) equals
\* _title_similar(B, A) for all pairs of titles.
C5_Symmetric ==
    pc = "sim2" => call.ret = call.swapped

\* two titles with different token sets that are found similar both ways
C5_Witness ==
    /\ pc = "sim2"
    /\ WordTokens(call.title1) # WordTokens(call.title2)
    /\ Cardinality(WordTokens(call.title1)) # Cardinality(WordTokens(call.title2))
    /\ call.ret
    /\ call.swapped

-----------------------------------------------------------------------------
(* C6 *)

\* C6: a search returns a record only if the service returned at least one
\* result and the first result's title passes the similarity check against
\* the query title; search_arxiv also returns nothing on a non-success HTTP
\* status.  So zero entries, or a top title overlapping below 0.7, yield nothing.
C6_RecordOnlyIfTopTitleMatches ==
    /\ ArxivRecord =>
          /\ call.resp.status = HttpOk
          /\ call.resp.entries # <<>>
          /\ call.resp.entries[1].title.hasText
          /\ Overlap70(call.title, call.resp.entries[1].title.text)
    /\ ScholarRecord =>
          /\ call.resp.results # <<>>
          /\ call.resp.results[1].title.present
          /\ Overlap70(call.title, call.resp.results[1].title.text)

\* a search that returned nothing although the service answered with a top
\* result: its title differs too much from the query
C6_Witness ==
    /\ ArxivReturned
    /\ call.ret = NoneVal
    /\ call.resp.net = "ok" /\ call.resp.status = HttpOk /\ call.resp.xml = "ok"
    /\ call.resp.entries # <<>>
    /\ call.resp.entries[1].title.hasText
    /\ WordTokens(call.resp.entries[1].title.text) # {}
    /\ WordTokens(call.title) \cap WordTokens(call.resp.entries[1].title.text) # {}
    /\ ~Overlap70(call.title, call.resp.entries[1].title.text)

-----------------------------------------------------------------------------
(* C1 *)

\* C1: when the e-print search is enabled and returns a record,
\* fallback_search returns exactly that record, and in that invocation the
\* scholarly search is never invoked and the courtesy delay never occurs.
C1_ArxivSuccessShortCircuits ==
    InFallback =>
        \A i \in LogEvents("search_arxiv") :
            log[i].ret.kind = "bibtex" =>
                /\ LogEvents("search_google_scholar") = {}
                /\ LogEvents("sleep") = {}
                /\ pc \in {"fb222", "fb_done"}
                /\ pc = "fb_done" => result = log[i].ret

\* fallback_search has returned the record the e-print search found
C1_Witness ==
    /\ InFallback
    /\ pc = "fb_done"
    /\ fb.use_arxiv /\ fb.use_scholar
    /\ result.kind = "bibtex"
    /\ log = <<Event("search_arxiv", result)>>

-----------------------------------------------------------------------------
(* C2 *)

\* C2: fallback_search never invokes a service whose flag is false; with both
\* flags false it returns nothing without any network call and without the delay.
C2_DisabledServiceNeverCalled ==
    InFallback =>
        /\ ~fb.use_arxiv => LogEvents("search_arxiv") = {}
        /\ ~fb.use_scholar =>
              LogEvents("search_google_scholar") = {} /\ LogEvents("sleep") = {}
        /\ (~fb.use_arxiv /\ ~fb.use_scholar /\ pc = "fb_done") =>
              result = NoneVal /\ log = <<>>

\* fallback_search has returned with both services disabled
C2_Witness ==
    /\ InFallback
    /\ pc = "fb_done"
    /\ ~fb.use_arxiv
    /\ ~fb.use_scholar
    /\ result = NoneVal

-----------------------------------------------------------------------------
(* C3 *)

Outcomes == {"bibtex", "None"}

\* the first result's title fails the similarity check
ArxivMismatch(title, resp) ==
    /\ resp.net = "ok" /\ resp.status = HttpOk /\ resp.xml = "ok"
    /\ resp.entries # <<>>
    /\ resp.entries[1].title.hasText
    /\ ~Overlap70(title, resp.entries[1].title.text)

\* C3: every call of search_arxiv, search_google_scholar and fallback_search
\* ends in a record or in nothing: an HTTP failure, an empty result set, a
\* parse error, a title mismatch, a missing scholarly dependency and an
\* unexpected exception at any step, loading the dependency included, yield
\* nothing and never reach the caller as an exception.
C3_RecordOrNothing ==
    /\ (ArxivReturned \/ ScholarReturned) => call.ret.kind \in Outcomes
    /\ (InFallback /\ pc = "fb_done") => result.kind \in Outcomes
    /\ (/\ ArxivReturned
        /\ \/ call.resp.net # "ok"
           \/ call.resp.status # HttpOk
           \/ call.resp.xml # "ok"
           \/ call.resp.entries = <<>>
           \/ ArxivMismatch(call.title, call.resp)) => call.ret = NoneVal
    /\ (/\ ScholarReturned
        /\ \/ call.resp.import # "ok"
           \/ call.resp.search # "ok"
           \/ call.resp.results = <<>>) => call.ret = NoneVal

-----------------------------------------------------------------------------
(* C10 *)

\* C10: a fallback_search invocation is a linear run that terminates: each
\* service is called at most once, the e-print call precedes the scholarly
\* call, nothing is retried; the scholarly search is attempted exactly when
\* its flag is enabled and the e-print search did not succeed, exactly one
\* courtesy delay precedes it, and the orchestrator then returns the
\* scholarly result or nothing.
C10_LinearRun ==
    InFallback =>
        LET A == LogEvents("search_arxiv")
            S == LogEvents("search_google_scholar")
            D == LogEvents("sleep")
            arxivFound == \E i \in A : log[i].ret.kind = "bibtex"
        IN  /\ Cardinality(A) <= 1
            /\ Cardinality(S) <= 1
            /\ Cardinality(D) <= 1
            /\ \A i \in A, j \in S \cup D : i < j
            /\ \A j \in S : \E d \in D : d < j
            /\ pc # "fb_done" => ENABLED Next
            /\ pc = "fb_done" =>
                  /\ S # {} <=> (fb.use_scholar /\ ~arxivFound)
                  /\ D # {} <=> S # {}
                  /\ result.kind \in Outcomes
                  /\ \A j \in S : result = log[j].ret

-----------------------------------------------------------------------------
(* C7 *)

StartsWith(s, prefix) ==
    Len(s) >= Len(prefix) /\ SubSeq(s, 1, Len(prefix)) = prefix

\* the entry's identifier: what follows the service's URL prefix in the id text
EntryIdentifier(text) ==
    IF StartsWith(text, AbsBase) THEN SubSeq(text, Len(AbsBase) + 1, Len(text)) ELSE text

\* the positions where a trailing version suffix, 'v' and digits, starts
VersionStarts(s) ==
    {i \in 1..(Len(s) - 1) : s[i] = "v" /\ \A k \in (i + 1)..Len(s) : IsDigit(s[k])}

EndsInVersionSuffix(s) == VersionStarts(s) # {}

WithoutVersionSuffix(s) ==
    IF EndsInVersionSuffix(s)
    THEN SubSeq(s, 1, (CHOOSE i \in VersionStarts(s) : TRUE) - 1)
    ELSE s

\* an id text of the form the service issues: the URL prefix, then one or
\* more non-empty path segments free of whitespace
ServiceIdText(text) ==
    /\ StartsWith(text, AbsBase)
    /\ LET id == EntryIdentifier(text) IN
       /\ id # <<>>
       /\ id[1] # "/"
       /\ id[Len(id)] # "/"
       /\ \A k \in DOMAIN id : ~IsSpace(id[k])
       /\ \A k \in 1..(Len(id) - 1) : ~(id[k] = "/" /\ id[k + 1] = "/")

\* the identifier a record carries in its journal field
EmittedId(r) ==
    SubSeq(FieldValue(r, "journal"), Len(ArxivPreprint) + 1, Len(FieldValue(r, "journal")))

\* C7: whenever search_arxiv returns a record, the identifier it emits is the
\* entry's identifier with any trailing version suffix stripped and nothing
\* else removed, and the emitted identifier does not end in a version suffix.
C7_IdentifierVersionStripped ==
    (/\ ArxivRecord
     /\ call.resp.entries[1].id.hasText
     /\ ServiceIdText(call.resp.entries[1].id.text)) =>
        /\ EmittedId(call.ret)
               = WithoutVersionSuffix(EntryIdentifier(call.resp.entries[1].id.text))
        /\ ~EndsInVersionSuffix(EmittedId(call.ret))

-----------------------------------------------------------------------------
(* C8 *)

Keywords == {KW_conference, KW_proceedings, KW_symposium}

\* some stretch of the venue text reads, lower-cased, as one of the keywords
HasKeyword(venue) ==
    \E i \in DOMAIN venue : \E j \in i..Len(venue) :
        LowerStr(SubSeq(venue, i, j)) \in Keywords

\* the venue text of a scholarly result: the first given of venue, journal
\* and booktitle
VenueOf(res) ==
    IF res.venue.present THEN res.venue.text
    ELSE IF res.journal.present THEN res.journal.text
    ELSE IF res.booktitle.present THEN res.booktitle.text
    ELSE <<>>

\* C8: whenever search_google_scholar returns a record, its type is
\* inproceedings if and only if the venue text contains, case-insensitively,
\* one of "conference", "proceedings", "symposium", and article otherwise;
\* the venue is emitted as booktitle exactly when the type is inproceedings
\* and as journal exactly when it is article.
C8_TypeFromVenue ==
    ScholarRecord =>
        LET venue == VenueOf(call.resp.results[1]) IN
        /\ call.ret.type = "inproceedings" <=> HasKeyword(venue)
        /\ call.ret.type = "article" <=> ~HasKeyword(venue)
        /\ "booktitle" \in FieldNames(call.ret) <=> call.ret.type = "inproceedings"
        /\ "journal" \in FieldNames(call.ret) <=> call.ret.type = "article"
        /\ FieldValue(call.ret,
                      IF call.ret.type = "inproceedings" THEN "booktitle" ELSE "journal")
               = venue

\* an inproceedings record whose venue holds a keyword in another case, across
\* two fragments of the venue text
C8_Witness ==
    /\ ScholarRecord
    /\ call.ret.type = "inproceedings"
    /\ call.resp.results[1].venue.text = F_Proc \o F_eedings
    /\ "booktitle" \in FieldNames(call.ret)

-----------------------------------------------------------------------------
(* C9 *)

\* C9: every record returned by either search holds all required fields
\* (author list, title, venue/journal, year, identifier) whatever the
\* service's top result supplies or omits; only the optional URL may be
\* absent, and it is omitted exactly when the source gives none.
C9_AllRequiredFields ==
    /\ ArxivRecord =>
          /\ {"author", "title", "journal", "year"} \subseteq FieldNames(call.ret)
          /\ StartsWith(FieldValue(call.ret, "journal"), ArxivPreprint)
    /\ ScholarRecord =>
          /\ {"author", "title", "year"} \subseteq FieldNames(call.ret)
          /\ {"journal", "booktitle"} \cap FieldNames(call.ret) # {}
          /\ "url" \in FieldNames(call.ret)
                <=> GetText(call.resp.results[1].pub_url, <<>>) # <<>>

\* C9 as amended: a record of search_arxiv holds author, title, journal
\* (which carries the identifier) and year; a record of search_google_scholar
\* holds author, title and one of booktitle and journal; its year is present
\* exactly when the result gives a non-empty pub_year, and its url exactly
\* when the result gives a non-empty pub_url.
C9_RequiredFieldsAmended ==
    /\ ArxivRecord =>
          /\ FieldNames(call.ret) = {"author", "title", "journal", "year"}
          /\ StartsWith(FieldValue(call.ret, "journal"), ArxivPreprint)
    /\ ScholarRecord =>
          LET res == call.resp.results[1] IN
          /\ {"author", "title"} \subseteq FieldNames(call.ret)
          /\ Cardinality({"journal", "booktitle"} \cap FieldNames(call.ret)) = 1
          /\ "year" \in FieldNames(call.ret)
                <=> (res.pub_year.present /\ res.pub_year.text # <<>>)
          /\ "url" \in FieldNames(call.ret)
                <=> (res.pub_url.present /\ res.pub_url.text # <<>>)

\* a scholarly record without a year: the result gave no pub_year
C9_Witness ==
    /\ ScholarRecord
    /\ ~call.resp.results[1].pub_year.present
    /\ "year" \notin FieldNames(call.ret)
    /\ "url" \in FieldNames(call.ret)

====
